---- MODULE Spec2Model ----
(***************************************************************************)
(* DetectronProcessor (allennlp/data/dataset_readers/dataset_utils/        *)
(* detectron_utils.py): normalisation of image descriptors into the        *)
(* dictionaries the detection model takes, one model invocation on the     *)
(* batch, and flattening of each per-image raw result into a flat record   *)
(* of padding-aware tensor fields.                                         *)
(***************************************************************************)
EXTENDS Integers, Sequences, FiniteSets, TLC

VARIABLES pc, images, single, batch, norm, mapperLog, modelCalls, modelSeen,
          raw, image_fields, result, error

vars == <<pc, images, single, batch, norm, mapperLog, modelCalls, modelSeen,
          raw, image_fields, result, error>>

(***************************************************************************)
(* Bounds                                                                  *)
(***************************************************************************)
\* longest list of image descriptors given to one call
MaxImages == 2
\* longest list of per-segment dictionaries in a panoptic_seg pair
MaxSegs == 3

(***************************************************************************)
(* Python values.  A value is a record with its type in `kind`; strings,   *)
(* paths and tensors are named by a number (path n and string n carry the  *)
(* same text).  A dict is a function from its keys to values.              *)
(***************************************************************************)
StrVal(n) == [kind |-> "str", v |-> n]
PathVal(n) == [kind |-> "path", v |-> n]
TensorVal(n) == [kind |-> "tensor", v |-> n]
IntVal(n) == [kind |-> "int", v |-> n]
OtherVal == [kind |-> "other", v |-> 0]

EmptyDict == [k \in {} |-> k]

\* d[key] = val
Put(d, key, val) == [k \in DOMAIN d \cup {key} |-> IF k = key THEN val ELSE d[k]]

\* str(p) of a path-like object p
Str(p) == StrVal(p.v)

\* ImageWithSize(image, size)
ImageWithSize(image, size) == [kind |-> "sized", image |-> image, size |-> size]

\* a dict given as the image descriptor
DictVal(d) == [kind |-> "dict", d |-> d]

\* a list given as the argument of __call__
ListVal(items) == [kind |-> "list", items |-> items]

\* the values ImageWithSize.image is given in the model: the three declared
\* types and one undeclared value
WrappedValues == {StrVal(1), PathVal(2), TensorVal(1), OtherVal}

\* the dictionaries given as descriptors: with an `image` tensor, with a
\* `file_name` only, with every key, and with no key
PreparedDicts ==
    { Put(EmptyDict, "image", TensorVal(2)),
      Put(EmptyDict, "file_name", StrVal(1)),
      Put(Put(Put(Put(EmptyDict, "image", TensorVal(2)), "file_name", StrVal(1)),
              "height", IntVal(2)), "width", IntVal(3)),
      EmptyDict }

\* a dictionary whose `image` is not a tensor
MalformedDict == Put(EmptyDict, "image", StrVal(1))

\* SupportedImageFormat = Union[ImageWithSize, Tensor, dict, str, PathLike]
SupportedImageFormat ==
    { ImageWithSize(w, <<2, 3>>) : w \in WrappedValues \ {OtherVal} }
      \cup {TensorVal(1), StrVal(1), PathVal(2)}
      \cup { DictVal(d) : d \in PreparedDicts }

\* every descriptor a caller passes in the model: the supported formats, a
\* size-annotated descriptor around an undeclared value, a dictionary whose
\* `image` is not a tensor, and a bare undeclared value
Descriptors ==
    SupportedImageFormat
      \cup {ImageWithSize(OtherVal, <<2, 3>>), DictVal(MalformedDict), OtherVal}

(***************************************************************************)
(* The mapper collaborator (detectron2 DatasetMapper).  One invocation     *)
(* either returns its argument enriched with an `image` tensor, raises,    *)
(* or returns a dictionary whose `image` is not a tensor.                  *)
(***************************************************************************)
MapperOutcomes == {"enrich", "raise", "nontensor"}

MappedTensor == TensorVal(0)

Mapper(d, outcome) ==
    IF outcome = "enrich" THEN Put(d, "image", MappedTensor)
    ELSE Put(d, "image", OtherVal)

(***************************************************************************)
(* _to_model_input.  The result records how the call ended (status), the   *)
(* dictionary that reached the `image` test of line 110 (pre, when         *)
(* hasPre), whether the mapper was invoked, and the dictionary returned    *)
(* (out, when status = "ok").                                              *)
(***************************************************************************)
Raised(status) ==
    [status |-> status, hasPre |-> FALSE, pre |-> EmptyDict,
     mapperCalled |-> FALSE, out |-> EmptyDict]

\* SizedDict without the `else: raise` of lines 101-102: an unrecognized
\* wrapped value leaves the dictionary with the size only
SizedDictNoElse(w, size) ==
    LET image_dict == Put(Put(EmptyDict, "height", IntVal(size[1])),
                          "width", IntVal(size[2]))
    IN  IF w.kind = "str" THEN [ok |-> TRUE, d |-> Put(image_dict, "file_name", w)]
        ELSE IF w.kind = "tensor" THEN [ok |-> TRUE, d |-> Put(image_dict, "image", w)]
        ELSE [ok |-> TRUE, d |-> image_dict]

\* SizedDict without line 96: height and width are left out
SizedDictNoSize(w, size) ==
    IF w.kind = "str" THEN [ok |-> TRUE, d |-> Put(EmptyDict, "file_name", w)]
    ELSE IF w.kind = "tensor" THEN [ok |-> TRUE, d |-> Put(EmptyDict, "image", w)]
    ELSE [ok |-> FALSE, d |-> EmptyDict]

\* lines 96-103: the dictionary built from a size-annotated descriptor whose
\* wrapped value is w
SizedDict(w, size) ==
    LET image_dict == Put(Put(EmptyDict, "height", IntVal(size[1])),
                          "width", IntVal(size[2]))
    IN  IF w.kind = "str" THEN [ok |-> TRUE, d |-> Put(image_dict, "file_name", w)]
        ELSE IF w.kind = "tensor" THEN [ok |-> TRUE, d |-> Put(image_dict, "image", w)]
        ELSE [ok |-> FALSE, d |-> image_dict]

\* line 95: `image.image = str(image.image)` assigns to a field of a
\* NamedTuple, which Python refuses with AttributeError
SetTupleField(image, val) == [ok |-> FALSE, image |-> image]

\* MapAndCheck without the test of line 110: the mapper is always invoked
MapAndCheckAlways(d, outcome) ==
    IF outcome = "raise"
    THEN [status |-> "MapperError", hasPre |-> TRUE, pre |-> d,
          mapperCalled |-> TRUE, out |-> EmptyDict]
    ELSE LET m == Mapper(d, outcome)
         IN  [status |-> IF m["image"].kind = "tensor" THEN "ok" ELSE "AssertionError",
              hasPre |-> TRUE, pre |-> d, mapperCalled |-> TRUE, out |-> m]

\* lines 110-113
MapAndCheck(d, outcome) ==
    IF "image" \notin DOMAIN d
    THEN IF outcome = "raise"
         THEN [status |-> "MapperError", hasPre |-> TRUE, pre |-> d,
               mapperCalled |-> TRUE, out |-> EmptyDict]
         ELSE LET m == Mapper(d, outcome)
              IN  [status |-> IF m["image"].kind = "tensor" THEN "ok"
                              ELSE "AssertionError",
                   hasPre |-> TRUE, pre |-> d, mapperCalled |-> TRUE, out |-> m]
    ELSE [status |-> IF d["image"].kind = "tensor" THEN "ok" ELSE "AssertionError",
          hasPre |-> TRUE, pre |-> d, mapperCalled |-> FALSE, out |-> d]

\* lines 92-113
ToModelInput(image, outcome) ==
    IF image.kind = "sized"
    THEN LET set == IF image.image.kind = "path"
                    THEN SetTupleField(image, Str(image.image))
                    ELSE [ok |-> TRUE, image |-> image]
         IN  IF ~set.ok THEN Raised("AttributeError")
             ELSE LET sd == SizedDict(set.image.image, set.image.size)
                  IN  IF ~sd.ok THEN Raised("ValueError")
                      ELSE MapAndCheck(sd.d, outcome)
    ELSE LET s == IF image.kind = "path" THEN Str(image) ELSE image
             d == IF s.kind = "str" THEN DictVal(Put(EmptyDict, "file_name", s)) ELSE s
         IN  IF d.kind # "dict" THEN Raised("AssertionError")
             ELSE MapAndCheck(d.d, outcome)

(***************************************************************************)
(* The model collaborator's per-image raw results.  Tensors are records    *)
(* [dtype, data]; the tensors of the raw result of image `tag` are named   *)
(* 10 * tag + n, so that each belongs to one image.                        *)
(***************************************************************************)
RawTensor(tag, n) == [dtype |-> "float32", data |-> <<10 * tag + n>>]

\* a detectron2 Boxes object; `.tensor` is its tensor
Boxes(t) == [kind |-> "Boxes", tensor |-> t]

InstanceFields == {"pred_boxes", "scores", "pred_classes", "pred_masks", "pred_keypoints"}
ProposalFields == {"proposal_boxes", "objectness_logits"}
RawKeys == {"instances", "sem_seg", "proposals", "panoptic_seg"}

FieldNo(f) ==
    CASE f = "pred_boxes" -> 1 [] f = "scores" -> 2 [] f = "pred_classes" -> 3
      [] f = "pred_masks" -> 4 [] f = "pred_keypoints" -> 5
      [] f = "proposal_boxes" -> 6 [] f = "objectness_logits" -> 7

\* an Instances object holding the fields fs
Instances(tag, fs) ==
    [f \in fs |-> IF f \in {"pred_boxes", "proposal_boxes"}
                  THEN Boxes(RawTensor(tag, FieldNo(f)))
                  ELSE RawTensor(tag, FieldNo(f))]

\* the per-segment dictionaries of a panoptic_seg pair
Segments ==
    { [id |-> 1, isthing |-> TRUE, category_id |-> 5],
      [id |-> 2, isthing |-> FALSE, category_id |-> 7],
      [id |-> 3, isthing |-> TRUE, category_id |-> 5] }

SegmentLists == UNION { [1..k -> Segments] : k \in 0..MaxSegs }

\* which keys a raw result has, and what they hold
AllPatterns ==
    { p \in [keys : SUBSET RawKeys, ifields : SUBSET InstanceFields,
             pfields : SUBSET ProposalFields, dicts : SegmentLists] :
        /\ "instances" \notin p.keys => p.ifields = {}
        /\ "proposals" \notin p.keys => p.pfields = {}
        /\ "panoptic_seg" \notin p.keys => p.dicts = <<>> }

\* the raw results the model returns in a whole call: no key; instances
\* with boxes only and sem_seg; proposals and a two-segment panoptic_seg;
\* every key, with instances without masks and panoptic_seg without segments
Pattern(keys, ifields, pfields, dicts) ==
    [keys |-> keys, ifields |-> ifields, pfields |-> pfields, dicts |-> dicts]

PipePatterns ==
    { Pattern({}, {}, {}, <<>>),
      Pattern({"instances", "sem_seg"}, {"pred_boxes"}, {}, <<>>),
      Pattern({"proposals", "panoptic_seg"}, {}, ProposalFields,
              << [id |-> 1, isthing |-> TRUE, category_id |-> 5],
                 [id |-> 2, isthing |-> FALSE, category_id |-> 7] >>),
      Pattern(RawKeys, InstanceFields \ {"pred_masks"}, {"objectness_logits"}, <<>>) }

\* the raw result of image `tag` with the keys of pattern p
MakeRaw(tag, p) ==
    [k \in p.keys |->
        CASE k = "instances" -> Instances(tag, p.ifields)
          [] k = "sem_seg" -> RawTensor(tag, 8)
          [] k = "proposals" -> Instances(tag, p.pfields)
          [] k = "panoptic_seg" -> <<RawTensor(tag, 9), p.dicts>>]

(***************************************************************************)
(* The output flattener, lines 44-89.                                      *)
(***************************************************************************)
\* TensorField(tensor, padding_value=...); "unset" when the argument is not given
TensorField(tensor, padding_value) == [tensor |-> tensor, padding_value |-> padding_value]

\* instances.has(name)
Has(instances, name) == name \in DOMAIN instances

\* Int32Tensor reading `id` whatever key is asked for
Int32TensorOfId(dicts, key) ==
    [dtype |-> "int32", data |-> [j \in 1..Len(dicts) |-> dicts[j]["id"]]]

\* torch.tensor([d[key] for d in dicts], dtype=torch.int32)
Int32Tensor(dicts, key) ==
    [dtype |-> "int32", data |-> [j \in 1..Len(dicts) |-> dicts[j][key]]]

\* torch.tensor([d[key] for d in dicts], dtype=torch.bool): 1 for True, 0 for False
BoolTensor(dicts, key) ==
    [dtype |-> "bool", data |-> [j \in 1..Len(dicts) |-> IF dicts[j][key] THEN 1 ELSE 0]]

\* FlattenInstances with the masks test nested under the boxes test: without
\* boxes no masks are emitted
FlattenInstancesNested(fields, image) ==
    IF "instances" \in DOMAIN image
    THEN LET instances == image["instances"]
             f1 == IF Has(instances, "pred_boxes")
                   THEN LET b == Put(fields, "instances/pred_boxes",
                                     TensorField(instances["pred_boxes"].tensor, "-1"))
                        IN  IF Has(instances, "pred_masks")
                            THEN Put(b, "instances/pred_masks",
                                     TensorField(instances["pred_masks"], "False"))
                            ELSE b
                   ELSE fields
             f2 == IF Has(instances, "scores")
                   THEN Put(f1, "instances/scores", TensorField(instances["scores"], "unset"))
                   ELSE f1
             f3 == IF Has(instances, "pred_classes")
                   THEN Put(f2, "instances/pred_classes",
                            TensorField(instances["pred_classes"], "-1"))
                   ELSE f2
             f5 == IF Has(instances, "pred_keypoints")
                   THEN Put(f3, "instances/pred_keypoints",
                            TensorField(instances["pred_keypoints"], "-1"))
                   ELSE f3
         IN  f5
    ELSE fields

\* lines 46-65
FlattenInstances(fields, image) ==
    IF "instances" \in DOMAIN image
    THEN LET instances == image["instances"]
             f1 == IF Has(instances, "pred_boxes")
                   THEN Put(fields, "instances/pred_boxes",
                            TensorField(instances["pred_boxes"].tensor, "-1"))
                   ELSE fields
             f2 == IF Has(instances, "scores")
                   THEN Put(f1, "instances/scores", TensorField(instances["scores"], "unset"))
                   ELSE f1
             f3 == IF Has(instances, "pred_classes")
                   THEN Put(f2, "instances/pred_classes",
                            TensorField(instances["pred_classes"], "-1"))
                   ELSE f2
             f4 == IF Has(instances, "pred_masks")
                   THEN Put(f3, "instances/pred_masks",
                            TensorField(instances["pred_masks"], "False"))
                   ELSE f3
             f5 == IF Has(instances, "pred_keypoints")
                   THEN Put(f4, "instances/pred_keypoints",
                            TensorField(instances["pred_keypoints"], "-1"))
                   ELSE f4
         IN  f5
    ELSE fields

\* lines 66-67
FlattenSemSeg(fields, image) ==
    IF "sem_seg" \in DOMAIN image
    THEN Put(fields, "sem_seg", TensorField(image["sem_seg"], "0.0"))
    ELSE fields

\* lines 68-77
FlattenProposals(fields, image) ==
    IF "proposals" \in DOMAIN image
    THEN LET instances == image["proposals"]
             f1 == IF Has(instances, "proposal_boxes")
                   THEN Put(fields, "proposals/proposal_boxes",
                            TensorField(instances["proposal_boxes"].tensor, "-1"))
                   ELSE fields
             f2 == IF Has(instances, "objectness_logits")
                   THEN Put(f1, "proposals/objectness_logits",
                            TensorField(instances["objectness_logits"], "unset"))
                   ELSE f1
         IN  f2
    ELSE fields

\* lines 78-87
FlattenPanoptic(fields, image) ==
    IF "panoptic_seg" \in DOMAIN image
    THEN LET segment_ids == image["panoptic_seg"][1]
             dicts == image["panoptic_seg"][2]
             f1 == Put(fields, "panoptic_seg", TensorField(segment_ids, "-1"))
             ids == Int32Tensor(dicts, "id")
             isthings == BoolTensor(dicts, "isthing")
             category_ids == Int32Tensor(dicts, "category_id")
             f2 == Put(f1, "panoptic_seg/ids", TensorField(ids, "-1"))
             f3 == Put(f2, "panoptic_seg/isthings", TensorField(isthings, "False"))
             f4 == Put(f3, "panoptic_seg/category_ids", TensorField(category_ids, "-1"))
         IN  f4
    ELSE fields

\* lines 45-88: the record of one raw result, built on `fields`
Flatten(fields, image) ==
    FlattenPanoptic(FlattenProposals(FlattenSemSeg(FlattenInstances(fields, image),
                                                   image), image), image)

\* LoopBody with `fields = {}` hoisted out of the loop: each record is built on
\* the one before it
LoopBodySharedFields(fieldsList, image) ==
    Append(fieldsList,
           Flatten(IF fieldsList = <<>> THEN EmptyDict ELSE fieldsList[Len(fieldsList)],
                   image))

\* lines 44-89, one iteration: a fresh record is filled and appended
LoopBody(fieldsList, image) == Append(fieldsList, Flatten(EmptyDict, image))

(***************************************************************************)
(* __call__                                                                *)
(***************************************************************************)
NoResult == [shape |-> "none", rec |-> EmptyDict, list |-> <<>>]

\* line 35: isinstance(images, list)
IsList(x) == x.kind = "list"

\* line 36 / line 38: the list the pipeline runs on
BatchOf(x) == IF ~IsList(x) THEN <<x>> ELSE x.items

\* ReturnValue without the `[0]` of line 36: a single image gets the list
ReturnValueNoUnwrap(isSingle, fieldsList) ==
    [shape |-> "list", rec |-> EmptyDict, list |-> fieldsList]

\* line 36 `[0]` / line 90
ReturnValue(isSingle, fieldsList) ==
    IF isSingle
    THEN [shape |-> "record", rec |-> fieldsList[1], list |-> <<>>]
    ELSE [shape |-> "list", rec |-> EmptyDict, list |-> fieldsList]

\* Raises with the assertions of lines 109 and 112 switched off: only raised
\* errors leave the call
RaisesUnlessAssertion(o) == o.status \notin {"ok", "AssertionError"}

\* an exception of _to_model_input leaves the list comprehension of line 38
Raises(o) == o.status # "ok"

\* the list comprehension of line 38 has run over every image
AllNormalized(done, list) == Len(done) = Len(list)

DescriptorLists == UNION { [1..k -> Descriptors] : k \in 0..MaxImages }

Init ==
    /\ pc = "idle"
    /\ images = ListVal(<<>>)
    /\ single = FALSE
    /\ batch = <<>>
    /\ norm = <<>>
    /\ mapperLog = <<>>
    /\ modelCalls = 0
    /\ modelSeen = [normalized |-> 0, flattened |-> 0, arg |-> <<>>]
    /\ raw = <<>>
    /\ image_fields = <<>>
    /\ result = NoResult
    /\ error = "none"

\* lines 33-36: the caller passes one descriptor or a list of descriptors
Call ==
    /\ pc = "idle"
    /\ \E x \in Descriptors \cup { ListVal(l) : l \in DescriptorLists } :
          /\ images' = x
          /\ single' = ~IsList(x)
          /\ batch' = BatchOf(x)
    /\ pc' = "normalize"
    /\ UNCHANGED <<norm, mapperLog, modelCalls, modelSeen, raw, image_fields,
                   result, error>>

\* line 38, one element of the list comprehension
Normalize ==
    /\ pc = "normalize"
    /\ ~AllNormalized(norm, batch)
    /\ \E outcome \in MapperOutcomes :
          LET i == Len(norm) + 1
              o == ToModelInput(batch[i], outcome)
          IN  /\ norm' = Append(norm, o)
              /\ mapperLog' = IF o.mapperCalled
                              THEN Append(mapperLog, [index |-> i, arg |-> o.pre,
                                                      outcome |-> outcome])
                              ELSE mapperLog
              /\ IF Raises(o)
                 THEN pc' = "raised" /\ error' = o.status
                 ELSE UNCHANGED <<pc, error>>
    /\ UNCHANGED <<images, single, batch, modelCalls, modelSeen, raw,
                   image_fields, result>>

ModelSees == [normalized |-> Len(norm), flattened |-> Len(image_fields),
              arg |-> [i \in 1..Len(norm) |-> norm[i].out]]

\* line 39: the model returns one raw result per input, in order
Infer ==
    /\ pc = "normalize"
    /\ AllNormalized(norm, batch)
    /\ modelCalls' = modelCalls + 1
    /\ modelSeen' = ModelSees
    /\ \E ps \in [1..Len(batch) -> PipePatterns] :
          raw' = [i \in 1..Len(batch) |-> MakeRaw(i, ps[i])]
    /\ pc' = "flatten"
    /\ UNCHANGED <<images, single, batch, norm, mapperLog, image_fields, result, error>>

\* line 39: the model raises
InferRaises ==
    /\ pc = "normalize"
    /\ AllNormalized(norm, batch)
    /\ modelCalls' = modelCalls + 1
    /\ modelSeen' = ModelSees
    /\ pc' = "raised"
    /\ error' = "ModelError"
    /\ UNCHANGED <<images, single, batch, norm, mapperLog, raw, image_fields, result>>

\* lines 44-89, one iteration
FlattenStep ==
    /\ pc = "flatten"
    /\ Len(image_fields) < Len(raw)
    /\ image_fields' = LoopBody(image_fields, raw[Len(image_fields) + 1])
    /\ UNCHANGED <<pc, images, single, batch, norm, mapperLog, modelCalls, modelSeen,
                   raw, result, error>>

\* line 90, and the `[0]` of line 36
Return ==
    /\ pc = "flatten"
    /\ Len(image_fields) = Len(raw)
    /\ result' = ReturnValue(single, image_fields)
    /\ pc' = "returned"
    /\ UNCHANGED <<images, single, batch, norm, mapperLog, modelCalls, modelSeen,
                   raw, image_fields, error>>

Next == Call \/ Normalize \/ Infer \/ InferRaises \/ FlattenStep \/ Return

Spec == Init /\ [][Next]_vars

(***************************************************************************)
(* The flattener on every raw result: the state after inference on a       *)
(* one-image batch, for each raw result the model can return.              *)
(***************************************************************************)
FlatImage == ImageWithSize(TensorVal(1), <<2, 3>>)

InitFlat ==
    /\ pc = "flatten"
    /\ images = ListVal(<<FlatImage>>)
    /\ single = FALSE
    /\ batch = <<FlatImage>>
    /\ norm = <<ToModelInput(FlatImage, "enrich")>>
    /\ mapperLog = <<>>
    /\ modelCalls = 1
    /\ modelSeen = [normalized |-> 1, flattened |-> 0,
                    arg |-> <<ToModelInput(FlatImage, "enrich").out>>]
    /\ raw \in { <<MakeRaw(1, p)>> : p \in AllPatterns }
    /\ image_fields = <<>>
    /\ result = NoResult
    /\ error = "none"

NextFlat == FlattenStep \/ Return

SpecFlat == InitFlat /\ [][NextFlat]_vars

(***************************************************************************)
(* The reference mapping of section 4.2: for each flat key, the raw key    *)
(* and attribute it comes from and its padding value.                      *)
(***************************************************************************)
FlatKeys ==
    { "instances/pred_boxes", "instances/scores", "instances/pred_classes",
      "instances/pred_masks", "instances/pred_keypoints", "sem_seg",
      "proposals/proposal_boxes", "proposals/objectness_logits",
      "panoptic_seg", "panoptic_seg/ids", "panoptic_seg/isthings",
      "panoptic_seg/category_ids" }

RawKeyOf(k) ==
    CASE k \in { "instances/pred_boxes", "instances/scores", "instances/pred_classes",
                 "instances/pred_masks", "instances/pred_keypoints" } -> "instances"
      [] k = "sem_seg" -> "sem_seg"
      [] k \in { "proposals/proposal_boxes", "proposals/objectness_logits" } -> "proposals"
      [] OTHER -> "panoptic_seg"

AttrOf(k) ==
    CASE k = "instances/pred_boxes" -> "pred_boxes"
      [] k = "instances/scores" -> "scores"
      [] k = "instances/pred_classes" -> "pred_classes"
      [] k = "instances/pred_masks" -> "pred_masks"
      [] k = "instances/pred_keypoints" -> "pred_keypoints"
      [] k = "proposals/proposal_boxes" -> "proposal_boxes"
      [] k = "proposals/objectness_logits" -> "objectness_logits"
      [] OTHER -> "none"

PaddingOf(k) ==
    CASE k \in { "instances/pred_boxes", "instances/pred_classes",
                 "instances/pred_keypoints", "proposals/proposal_boxes",
                 "panoptic_seg", "panoptic_seg/ids", "panoptic_seg/category_ids" } -> "-1"
      [] k \in { "instances/pred_masks", "panoptic_seg/isthings" } -> "False"
      [] k = "sem_seg" -> "0.0"
      [] OTHER -> "unset"

\* the flat keys the table gives a raw result
ExpectedKeys(image) ==
    { k \in FlatKeys :
        /\ RawKeyOf(k) \in DOMAIN image
        /\ AttrOf(k) # "none" => AttrOf(k) \in DOMAIN image[RawKeyOf(k)] }

\* the tensor the table gives flat key k of a raw result that has it, for
\* the keys that wrap a tensor of the raw result as it is
ExpectedTensor(image, k) ==
    CASE k = "sem_seg" -> image["sem_seg"]
      [] k = "panoptic_seg" -> image["panoptic_seg"][1]
      [] k \in { "instances/pred_boxes", "proposals/proposal_boxes" }
           -> image[RawKeyOf(k)][AttrOf(k)].tensor
      [] OTHER -> image[RawKeyOf(k)][AttrOf(k)]

DerivedKeys == { "panoptic_seg/ids", "panoptic_seg/isthings", "panoptic_seg/category_ids" }

\* C1: a call on n descriptors that all normalize returns a list of exactly n
\* records, and record i is built from raw result i alone: each of its keys is
\* one raw result i has, each wrapped tensor is a tensor of raw result i, and
\* each derived panoptic array has one entry per segment dictionary of raw
\* result i.
C1_RecordsFromOwnResult ==
    /\ Len(image_fields) <= Len(raw)
    /\ pc = "returned" =>
          /\ Len(image_fields) = Len(batch)
          /\ ~single => result.shape = "list" /\ Len(result.list) = Len(images.items)
                        /\ result.list = image_fields
    /\ \A i \in 1..Len(image_fields) :
          \A k \in DOMAIN image_fields[i] :
             /\ k \in ExpectedKeys(raw[i])
             /\ IF k \in DerivedKeys
                THEN Len(image_fields[i][k].tensor.data) = Len(raw[i]["panoptic_seg"][2])
                ELSE /\ image_fields[i][k].tensor = ExpectedTensor(raw[i], k)
                     /\ image_fields[i][k].tensor.data[1] \div 10 = i

\* a returned two-record list whose first raw result has keys the second lacks
C1_Witness ==
    /\ pc = "returned" /\ ~single /\ Len(result.list) = 2
    /\ "instances" \in DOMAIN raw[1] /\ "instances" \notin DOMAIN raw[2]
    /\ "panoptic_seg" \in DOMAIN raw[2]
    /\ "instances/pred_boxes" \in DOMAIN result.list[1]
    /\ "instances/pred_boxes" \notin DOMAIN result.list[2]

\* C2: the record of a raw result has exactly the keys of the table, each
\* with the table's padding value; a raw result with none of the four keys
\* gives an empty record, and instances with only pred_boxes gives exactly
\* instances/pred_boxes with padding -1.
C2_RecordMatchesTable ==
    \A i \in 1..Len(image_fields) :
       /\ DOMAIN image_fields[i] = ExpectedKeys(raw[i])
       /\ \A k \in DOMAIN image_fields[i] :
             image_fields[i][k].padding_value = PaddingOf(k)
       /\ DOMAIN raw[i] = {} => image_fields[i] = EmptyDict
       /\ (DOMAIN raw[i] = {"instances"} /\ DOMAIN raw[i]["instances"] = {"pred_boxes"})
             => /\ DOMAIN image_fields[i] = {"instances/pred_boxes"}
                /\ image_fields[i]["instances/pred_boxes"].padding_value = "-1"

\* the record of instances that have masks and scores but no boxes
C2_Witness ==
    /\ Len(image_fields) = 1
    /\ DOMAIN raw[1] = {"instances", "proposals"}
    /\ DOMAIN raw[1]["instances"] = {"pred_masks", "scores"}
    /\ DOMAIN raw[1]["proposals"] = {"objectness_logits"}
    /\ DOMAIN image_fields[1] =
          {"instances/pred_masks", "instances/scores", "proposals/objectness_logits"}

\* C7: for a panoptic_seg pair with k segment dictionaries, the ids, isthings
\* and category_ids arrays have length k and entry j holds the id, isthing
\* and category_id of dictionary j, as int32, bool and int32.
C7_PanopticArrays ==
    \A i \in 1..Len(image_fields) :
       "panoptic_seg" \in DOMAIN raw[i] =>
          LET dicts == raw[i]["panoptic_seg"][2]
              ids == image_fields[i]["panoptic_seg/ids"].tensor
              isthings == image_fields[i]["panoptic_seg/isthings"].tensor
              category_ids == image_fields[i]["panoptic_seg/category_ids"].tensor
          IN  /\ DerivedKeys \subseteq DOMAIN image_fields[i]
              /\ ids.dtype = "int32" /\ isthings.dtype = "bool"
              /\ category_ids.dtype = "int32"
              /\ Len(ids.data) = Len(dicts) /\ Len(isthings.data) = Len(dicts)
              /\ Len(category_ids.data) = Len(dicts)
              /\ \A j \in 1..Len(dicts) :
                    /\ ids.data[j] = dicts[j].id
                    /\ (isthings.data[j] = 1) = dicts[j].isthing
                    /\ isthings.data[j] \in {0, 1}
                    /\ category_ids.data[j] = dicts[j].category_id

\* ids [1,2,3], isthing [true,false,true], category_ids [5,7,5] come out unchanged
C7_Witness ==
    /\ Len(image_fields) = 1
    /\ "panoptic_seg" \in DOMAIN raw[1]
    /\ Len(raw[1]["panoptic_seg"][2]) = 3
    /\ image_fields[1]["panoptic_seg/ids"].tensor.data = <<1, 2, 3>>
    /\ image_fields[1]["panoptic_seg/isthings"].tensor.data = <<1, 0, 1>>
    /\ image_fields[1]["panoptic_seg/category_ids"].tensor.data = <<5, 7, 5>>

\* the invocations of the mapper for image i
MapperCallsFor(i) == { n \in 1..Len(mapperLog) : mapperLog[n].index = i }

\* every mapper invocation for image i enriched its argument
MapperEnriches(i) == \A n \in MapperCallsFor(i) : mapperLog[n].outcome = "enrich"

\* C3: a call with a single descriptor x returns a single record, not a
\* list: the pipeline ran on the one-element list [x] (one normalization, one
\* model invocation, one flattened record) and the record is element 0 of
\* its list, with the keys and tensors the table gives the raw result; a call
\* with a one-element list returns a one-element list.
C3_SingleIsListOfOne ==
    /\ pc # "idle" /\ single => batch = <<images>>
    /\ pc # "idle" /\ ~single => batch = images.items
    /\ pc = "returned" /\ single =>
          /\ result.shape = "record" /\ result.list = <<>>
          /\ Len(norm) = 1 /\ modelCalls = 1 /\ Len(raw) = 1 /\ Len(image_fields) = 1
          /\ result.rec = image_fields[1]
          /\ DOMAIN result.rec = ExpectedKeys(raw[1])
          /\ \A k \in DOMAIN result.rec \ DerivedKeys :
                result.rec[k].tensor = ExpectedTensor(raw[1], k)
    /\ pc = "returned" /\ ~single =>
          /\ result.shape = "list" /\ result.rec = EmptyDict
          /\ Len(result.list) = Len(images.items)
          /\ \A i \in 1..Len(result.list) :
                DOMAIN result.list[i] = ExpectedKeys(raw[i])

\* a single path-like descriptor whose call returned a record with fields
C3_Witness ==
    /\ pc = "returned" /\ single /\ images = PathVal(2)
    /\ result.shape = "record"
    /\ "sem_seg" \in DOMAIN result.rec

\* C5: when normalization of an image fails the call fails and the model is
\* never invoked; otherwise the model is invoked exactly once, on the whole
\* batch, after the last image was normalized and before any record was
\* built; no image is normalized twice, the mapper runs at most once per
\* image and the model at most once.
C5_FailBeforeInference ==
    /\ (\E i \in 1..Len(norm) : norm[i].status # "ok") =>
          /\ modelCalls = 0 /\ pc = "raised" /\ error = norm[Len(norm)].status
          /\ raw = <<>> /\ image_fields = <<>> /\ result = NoResult
    /\ modelCalls <= 1
    /\ Len(norm) <= Len(batch)
    /\ \A i \in 1..Len(batch) : Cardinality(MapperCallsFor(i)) <= 1
    /\ modelCalls = 1 =>
          /\ Len(norm) = Len(batch)
          /\ modelSeen.normalized = Len(batch) /\ modelSeen.flattened = 0
          /\ modelSeen.arg = [i \in 1..Len(batch) |-> norm[i].out]
    /\ (image_fields # <<>> \/ raw # <<>> \/ pc \in {"flatten", "returned"})
          => modelCalls = 1
    /\ pc = "raised" /\ error # "ModelError" => modelCalls = 0

\* the second image of a batch fails the dictionary assertion after the
\* first was normalized through the mapper
C5_Witness ==
    /\ pc = "raised" /\ Len(batch) = 2 /\ Len(norm) = 2
    /\ norm[1].status = "ok" /\ norm[1].mapperCalled
    /\ norm[2].status = "AssertionError"
    /\ modelCalls = 0

\* C6: a size-annotated descriptor whose wrapped value is neither path-like,
\* a string nor a tensor raises the format error (ValueError, "`image` is
\* not in a recognized format."), without any mapper invocation.
C6_UnrecognizedWrapped ==
    \A i \in 1..Len(norm) :
       (batch[i].kind = "sized" /\ batch[i].image.kind \notin {"path", "str", "tensor"})
          => /\ norm[i].status = "ValueError"
             /\ ~norm[i].mapperCalled
             /\ MapperCallsFor(i) = {}
             /\ pc = "raised" /\ error = "ValueError" /\ i = Len(norm)

C6_Witness ==
    /\ pc = "raised" /\ error = "ValueError" /\ Len(norm) = 2
    /\ batch[2] = ImageWithSize(OtherVal, <<2, 3>>)
    /\ norm[1].mapperCalled /\ Len(mapperLog) = 1

\* C9: the mapper is invoked exactly once when the dictionary obtained from
\* the descriptor lacks `image`, on that dictionary, and not at all when it
\* has one (or when no dictionary was obtained); a dictionary that has an
\* `image` tensor is returned with its entries unchanged; over a call the
\* mapper is invoked at most once per image, in input order.
C9_MapperOnlyWithoutImage ==
    /\ \A i \in 1..Len(norm) :
          /\ Cardinality(MapperCallsFor(i)) =
                (IF norm[i].hasPre /\ "image" \notin DOMAIN norm[i].pre THEN 1 ELSE 0)
          /\ norm[i].mapperCalled = (MapperCallsFor(i) # {})
          /\ \A n \in MapperCallsFor(i) : mapperLog[n].arg = norm[i].pre
          /\ (norm[i].hasPre /\ "image" \in DOMAIN norm[i].pre /\ norm[i].status = "ok")
                => norm[i].out = norm[i].pre
          /\ (batch[i].kind = "dict" /\ "image" \in DOMAIN batch[i].d
                /\ norm[i].status = "ok") => norm[i].out = batch[i].d
          /\ (batch[i].kind = "sized" /\ batch[i].image.kind = "tensor")
                => /\ ~norm[i].mapperCalled /\ norm[i].status = "ok"
                   /\ norm[i].out["image"] = batch[i].image
    /\ \A n \in 1..Len(mapperLog) : mapperLog[n].index \in 1..Len(norm)
    /\ \A m, n \in 1..Len(mapperLog) : m < n => mapperLog[m].index < mapperLog[n].index

\* a prepared dictionary with an image, then a file path: one mapper
\* invocation, for the second image
C9_Witness ==
    /\ pc = "returned" /\ Len(batch) = 2
    /\ batch[1].kind = "dict" /\ "image" \in DOMAIN batch[1].d
    /\ batch[2] = StrVal(1)
    /\ Len(mapperLog) = 1 /\ mapperLog[1].index = 2
    /\ norm[1].out = batch[1].d

\* C4: for each of the five descriptor variants, with a mapper that enriches
\* the dictionary it is given, _to_model_input returns normally with a
\* dictionary whose `image` is a tensor.
C4_SupportedVariantsNormalize ==
    \A i \in 1..Len(norm) :
       (batch[i] \in SupportedImageFormat /\ MapperEnriches(i))
          => /\ norm[i].status = "ok"
             /\ "image" \in DOMAIN norm[i].out
             /\ norm[i].out["image"].kind = "tensor"

\* C8: for a size-annotated descriptor around a path-like object, a string or
\* a tensor, the dictionary built before any mapper call has height and width
\* of the size, file_name the string form of the path or the string, or image
\* the tensor; a wrapped path-like object causes no error.
C8_SizedDictBuilt ==
    \A i \in 1..Len(norm) :
       (batch[i].kind = "sized" /\ batch[i].image.kind \in {"path", "str", "tensor"})
          => /\ norm[i].status # "AttributeError"
             /\ norm[i].hasPre
             /\ norm[i].pre["height"] = IntVal(batch[i].size[1])
             /\ norm[i].pre["width"] = IntVal(batch[i].size[2])
             /\ batch[i].image.kind = "path"
                   => DOMAIN norm[i].pre = {"height", "width", "file_name"}
                      /\ norm[i].pre["file_name"] = StrVal(batch[i].image.v)
             /\ batch[i].image.kind = "str"
                   => DOMAIN norm[i].pre = {"height", "width", "file_name"}
                      /\ norm[i].pre["file_name"] = batch[i].image
             /\ batch[i].image.kind = "tensor"
                   => DOMAIN norm[i].pre = {"height", "width", "image"}
                      /\ norm[i].pre["image"] = batch[i].image

\* C10 as stated: for every supported variant the dictionary _to_model_input
\* produces contains exactly one of file_name (a string) and image (a
\* tensor), and height/width only for the size-annotated variant.
C10_ExactlyOneInResult ==
    \A i \in 1..Len(norm) :
       (batch[i] \in SupportedImageFormat /\ norm[i].status = "ok")
          => LET out == norm[i].out
             IN  /\ ("file_name" \in DOMAIN out) # ("image" \in DOMAIN out)
                 /\ "file_name" \in DOMAIN out => out["file_name"].kind = "str"
                 /\ "image" \in DOMAIN out => out["image"].kind = "tensor"
                 /\ ({"height", "width"} \cap DOMAIN out # {}) => batch[i].kind = "sized"

\* C10 amended: for the string, path-like and size-annotated variants, the
\* dictionary built before any mapper call contains exactly one of file_name
\* (a string) and image (a tensor), and has height and width exactly when the
\* size-annotated variant was used; the dictionary returned always has an
\* image tensor, keeps every entry of the dictionary built, and so has both
\* file_name and image when the mapper supplied the image.
C10_ExactlyOneBeforeMapper ==
    \A i \in 1..Len(norm) :
       /\ (norm[i].hasPre /\ batch[i].kind \in {"str", "path", "sized"})
             => LET pre == norm[i].pre
                IN  /\ ("file_name" \in DOMAIN pre) # ("image" \in DOMAIN pre)
                    /\ "file_name" \in DOMAIN pre => pre["file_name"].kind = "str"
                    /\ "image" \in DOMAIN pre => pre["image"].kind = "tensor"
                    /\ ("height" \in DOMAIN pre) = (batch[i].kind = "sized")
                    /\ ("width" \in DOMAIN pre) = (batch[i].kind = "sized")
       /\ norm[i].status = "ok"
             => /\ norm[i].hasPre
                /\ "image" \in DOMAIN norm[i].out
                /\ norm[i].out["image"].kind = "tensor"
                /\ \A k \in DOMAIN norm[i].pre :
                      k \in DOMAIN norm[i].out /\ norm[i].out[k] = norm[i].pre[k]
                /\ norm[i].mapperCalled
                      => ("file_name" \in DOMAIN norm[i].out) =
                         ("file_name" \in DOMAIN norm[i].pre)

\* a size-annotated string and a file path, both normalized through the
\* mapper: the dictionaries returned hold file_name and image together
C10_Witness ==
    /\ Len(norm) = 2
    /\ batch[1] = ImageWithSize(StrVal(1), <<2, 3>>) /\ batch[2] = PathVal(2)
    /\ norm[1].status = "ok" /\ norm[2].status = "ok"
    /\ DOMAIN norm[1].out = {"height", "width", "file_name", "image"}
    /\ DOMAIN norm[2].pre = {"file_name"} /\ norm[2].pre["file_name"] = StrVal(2)
    /\ DOMAIN norm[2].out = {"file_name", "image"}

====
